---- MODULE Spec2Model ----
(***************************************************************************)
(* Model of the must-gather planning tools of pkg/toolsets/core:           *)
(*   - plan_mustgather  (mustgather.go, handler mustGatherPlan)            *)
(*   - must_gather_plan (must_gather_plan.go, anonymous handler)           *)
(*                                                                         *)
(* Strings that the code inspects or concatenates are sequences of tokens; *)
(* concatenation is \o.  A duration string is a sequence of one-character  *)
(* tokens.  A path is a sequence of "/" and "." tokens and of name tokens, *)
(* a name token standing for a run of bytes that are neither '/' nor '.'.  *)
(* Strings the code only copies (image references, node names) are plain   *)
(* TLA+ strings.  The argument map is a function whose domain is the set   *)
(* of keys that are present (args[k] != nil  <=>  k \in DOMAIN args).      *)
(***************************************************************************)
EXTENDS Integers, Sequences, FiniteSets, TLC

\* ------------------------------------------------------------------------
\* Bounds of the model
\* ------------------------------------------------------------------------
MaxImages == 2
MaxList == 2

\* ------------------------------------------------------------------------
\* Program constants (mustgather.go:23-29)
\* ------------------------------------------------------------------------
defaultGatherSourceDir == <<"/", "must-gather", "/">>
defaultMustGatherImage == "registry.redhat.io/openshift4/ose-must-gather:latest"
defaultGatherCmd == <<"/usr/bin/gather">>

\* ------------------------------------------------------------------------
\* path.Clean, as called at mustgather.go:131.  The state of the library's
\* loop is (r, out, dotdot): r the read index (0-based), out the buffer
\* written so far, dotdot the index in out below which ".." may not
\* backtrack.
\* ------------------------------------------------------------------------
At(s, i) == s[i + 1]

RECURSIVE BacktrackTo(_, _, _)
BacktrackTo(out, w, dotdot) ==
  IF w > dotdot /\ At(out, w) # "/" THEN BacktrackTo(out, w - 1, dotdot) ELSE w

RECURSIVE ElementEnd(_, _)
ElementEnd(p, r) ==
  IF r < Len(p) /\ At(p, r) # "/" THEN ElementEnd(p, r + 1) ELSE r

RECURSIVE CleanLoop(_, _, _, _, _)
CleanLoop(p, rooted, r, out, dotdot) ==
  LET n == Len(p) IN
  IF r >= n THEN out
  ELSE IF At(p, r) = "/" THEN CleanLoop(p, rooted, r + 1, out, dotdot)
  ELSE IF At(p, r) = "." /\ (r + 1 = n \/ At(p, r + 1) = "/")
       THEN CleanLoop(p, rooted, r + 1, out, dotdot)
  ELSE IF At(p, r) = "." /\ At(p, r + 1) = "."
          /\ (r + 2 = n \/ At(p, r + 2) = "/")
       THEN IF Len(out) > dotdot
            THEN LET w == BacktrackTo(out, Len(out) - 1, dotdot)
                 IN  CleanLoop(p, rooted, r + 2, SubSeq(out, 1, w), dotdot)
            ELSE IF ~rooted
            THEN LET o1 == IF Len(out) > 0 THEN Append(out, "/") ELSE out
                     o2 == o1 \o <<".", ".">>
                 IN  CleanLoop(p, rooted, r + 2, o2, Len(o2))
            ELSE CleanLoop(p, rooted, r + 2, out, dotdot)
  ELSE LET o1 == IF (rooted /\ Len(out) # 1) \/ (~rooted /\ Len(out) # 0)
                 THEN Append(out, "/") ELSE out
           e  == ElementEnd(p, r)
       IN  CleanLoop(p, rooted, e, o1 \o SubSeq(p, r + 1, e), dotdot)

Clean(p) ==
  IF p = <<>> THEN <<".">>
  ELSE LET rooted == At(p, 0) = "/"
           out == IF rooted THEN CleanLoop(p, TRUE, 1, <<"/">>, 1)
                            ELSE CleanLoop(p, FALSE, 0, <<>>, 0)
       IN  IF out = <<>> THEN <<".">> ELSE out

\* ------------------------------------------------------------------------
\* uint64 arithmetic of time.ParseDuration.  A number is the sequence of
\* its digits in base 2^15, least significant first, without high zeros
\* (zero is <<>>), so that values beyond 2^64 are computed exactly.
\* ------------------------------------------------------------------------
Base == 32768
BaseBits == 15

DigitValue ==
  ("0" :> 0) @@ ("1" :> 1) @@ ("2" :> 2) @@ ("3" :> 3) @@ ("4" :> 4)
  @@ ("5" :> 5) @@ ("6" :> 6) @@ ("7" :> 7) @@ ("8" :> 8) @@ ("9" :> 9)
Digits == DOMAIN DigitValue

RECURSIVE Norm(_)
Norm(a) ==
  IF a # <<>> /\ a[Len(a)] = 0 THEN Norm(SubSeq(a, 1, Len(a) - 1)) ELSE a

RECURSIVE AddCarry(_, _, _)
AddCarry(a, b, carry) ==
  IF a = <<>> /\ b = <<>> THEN (IF carry = 0 THEN <<>> ELSE <<carry>>)
  ELSE LET x == (IF a = <<>> THEN 0 ELSE a[1])
                + (IF b = <<>> THEN 0 ELSE b[1]) + carry
       IN  <<x % Base>> \o AddCarry(IF a = <<>> THEN <<>> ELSE Tail(a),
                                    IF b = <<>> THEN <<>> ELSE Tail(b),
                                    x \div Base)
BigAdd(a, b) == Norm(AddCarry(a, b, 0))

\* a - b, for a >= b
RECURSIVE SubBorrow(_, _, _)
SubBorrow(a, b, borrow) ==
  IF a = <<>> THEN <<>>
  ELSE LET x == a[1] - (IF b = <<>> THEN 0 ELSE b[1]) - borrow
       IN  <<(x + Base) % Base>>
           \o SubBorrow(Tail(a), IF b = <<>> THEN <<>> ELSE Tail(b),
                        IF x < 0 THEN 1 ELSE 0)
BigSub(a, b) == Norm(SubBorrow(a, b, 0))

\* a * m + carry, for one digit m
RECURSIVE MulDigit(_, _, _)
MulDigit(a, m, carry) ==
  IF a = <<>> THEN (IF carry = 0 THEN <<>> ELSE <<carry>>)
  ELSE LET x == a[1] * m + carry
       IN  <<x % Base>> \o MulDigit(Tail(a), m, x \div Base)

RECURSIVE BigMul(_, _)
BigMul(a, b) ==
  IF a = <<>> \/ b = <<>> THEN <<>>
  ELSE BigAdd(Norm(MulDigit(a, b[1], 0)),
              LET rest == BigMul(a, Tail(b))
              IN  IF rest = <<>> THEN <<>> ELSE <<0>> \o rest)

RECURSIVE GtFrom(_, _, _)
GtFrom(a, b, i) ==
  IF i = 0 THEN FALSE
  ELSE IF a[i] # b[i] THEN a[i] > b[i]
  ELSE GtFrom(a, b, i - 1)
BigGt(a, b) ==
  IF Len(a) # Len(b) THEN Len(a) > Len(b) ELSE GtFrom(a, b, Len(a))

\* the number written with the decimal digits ds, most significant first
RECURSIVE BigOfDigits(_)
BigOfDigits(ds) ==
  IF ds = <<>> THEN <<>>
  ELSE Norm(MulDigit(BigOfDigits(SubSeq(ds, 1, Len(ds) - 1)), 10,
                     DigitValue[ds[Len(ds)]]))

\* the largest k in lo .. hi with b * k <= r, for b * lo <= r
RECURSIVE QuotDigit(_, _, _, _)
QuotDigit(r, b, lo, hi) ==
  IF lo = hi THEN lo
  ELSE LET mid == (lo + hi + 1) \div 2
       IN  IF BigGt(Norm(MulDigit(b, mid, 0)), r)
           THEN QuotDigit(r, b, lo, mid - 1)
           ELSE QuotDigit(r, b, mid, hi)

\* one step of the long division by b > 0: the quotient and the remainder
\* hi of the higher digits, extended by the next digit
DivStep(hi, digit, b) ==
  IF hi.r = <<>> /\ digit = 0 THEN [q |-> <<0>> \o hi.q, r |-> <<>>]
  ELSE LET cur == <<digit>> \o hi.r
           k   == QuotDigit(cur, b, 0, Base - 1)
       IN  [q |-> <<k>> \o hi.q, r |-> BigSub(cur, Norm(MulDigit(b, k, 0)))]

\* long division by b > 0 of the number that the digits i .. Len(a) of a
\* make
RECURSIVE DivFrom(_, _, _)
DivFrom(a, b, i) ==
  IF i > Len(a) THEN [q |-> <<>>, r |-> <<>>]
  ELSE DivStep(DivFrom(a, b, i + 1), a[i], b)
BigDivMod(a, b) ==
  LET d == DivFrom(a, b, 1) IN [q |-> Norm(d.q), r |-> d.r]

Pow2(n) == [i \in 1 .. n \div BaseBits |-> 0] \o <<2 ^ (n % BaseBits)>>

\* the number of bits of a
RECURSIVE SmallBitLen(_)
SmallBitLen(k) == IF k = 0 THEN 0 ELSE 1 + SmallBitLen(k \div 2)
BitLen(a) ==
  IF a = <<>> THEN 0
  ELSE (Len(a) - 1) * BaseBits + SmallBitLen(a[Len(a)])

\* a * 2^n
ShiftLeft(a, n) ==
  IF a = <<>> THEN <<>>
  ELSE [i \in 1 .. n \div BaseBits |-> 0]
       \o MulDigit(a, 2 ^ (n % BaseBits), 0)

\* the digits i .. Len(a) of a divided by one digit m > 0: the quotient's
\* digits and the remainder
RECURSIVE DivDigit(_, _, _)
DivDigit(a, m, i) ==
  IF i > Len(a) THEN [q |-> <<>>, r |-> 0]
  ELSE LET hi  == DivDigit(a, m, i + 1)
           cur == hi.r * Base + a[i]
       IN  [q |-> <<cur \div m>> \o hi.q, r |-> cur % m]

\* floor(a / 2^n)
ShiftRight(a, n) ==
  IF n \div BaseBits >= Len(a) THEN <<>>
  ELSE Norm(DivDigit(SubSeq(a, n \div BaseBits + 1, Len(a)),
                     2 ^ (n % BaseBits), 1).q)

Two63 == Pow2(63)
Two63Minus1 == BigSub(Two63, <<1>>)
Two64 == Pow2(64)
\* 1<<63/10, which is also (1<<63-1)/10
Two63Div10 == Norm(DivDigit(Two63, 10, 1).q)

\* ------------------------------------------------------------------------
\* float64 arithmetic of time.ParseDuration.  A float64 that is not
\* negative is a record [m, e] of value m * 2^e with m a number of at most
\* 53 bits (m = 2^53 stands for the carry out of a rounding).  The values
\* met here are far from the subnormal and the infinite ranges.
\* ------------------------------------------------------------------------
FloatZero == [m |-> <<>>, e |-> 0]
FloatOne == [m |-> <<1>>, e |-> 0]
FloatTen == [m |-> <<10>>, e |-> 0]

\* x * 2^k
MulPow2(x, k) == [m |-> x.m, e |-> x.e + k]

\* The quotient dm.q, of 55 or 56 bits, and the remainder dm.r of a
\* division, rounded to the nearest number of 53 bits, ties to even: the
\* t = 2 or 3 bits below the 53 and the remainder decide.
RoundQuotient(dm) ==
  LET t    == BitLen(dm.q) - 53
      low  == dm.q[1] % (2 ^ t)
      half == 2 ^ (t - 1)
      m0   == ShiftRight(dm.q, t)
      up   == \/ low > half
              \/ low = half /\ (dm.r # <<>> \/ m0[1] % 2 = 1)
  IN  [m |-> IF up THEN BigAdd(m0, <<1>>) ELSE m0, e |-> t]

\* the float64 nearest to p / q, for q > 0: with
\* s = BitLen(q) + 55 - BitLen(p) the quotient of p * 2^s by q has 55 or 56
\* bits
RoundToFloat64(p, q) ==
  IF p = <<>> THEN FloatZero
  ELSE LET s == BitLen(q) + 55 - BitLen(p)
       IN  MulPow2(RoundQuotient(
                     BigDivMod(IF s >= 0 THEN ShiftLeft(p, s) ELSE p,
                               IF s >= 0 THEN q ELSE ShiftLeft(q, 0 - s))),
                   0 - s)

\* float64(n) for an integer n >= 0
Float64Of(n) == RoundToFloat64(n, <<1>>)

\* x * y, and x / y for y > 0, in float64
FloatMul(x, y) ==
  IF x.m = <<>> \/ y.m = <<>> THEN FloatZero
  ELSE MulPow2(RoundToFloat64(BigMul(x.m, y.m), <<1>>), x.e + y.e)
FloatDiv(x, y) ==
  IF x.m = <<>> THEN FloatZero
  ELSE MulPow2(RoundToFloat64(x.m, y.m), x.e - y.e)

\* uint64(x): the integer part
Uint64Of(x) ==
  IF x.e >= 0 THEN ShiftLeft(x.m, x.e) ELSE ShiftRight(x.m, 0 - x.e)

\* ------------------------------------------------------------------------
\* time.ParseDuration, as called at mustgather.go:159 and :170; only the
\* error is used.  Grammar: [-+]?([0-9]*(\.[0-9]*)?[a-z]+)+ with the
\* special case "0".  The micro sign U+00B5 and the Greek letter mu U+03BC
\* are the tokens "U+00B5" and "U+03BC".  The fraction's contribution
\* uint64(float64(f) * (float64(unit) / scale)) is computed in float64, each
\* operation rounding to the nearest value, ties to even.
\* ------------------------------------------------------------------------
\* unit -> nanoseconds
unitMap ==
  (<<"n", "s">> :> BigOfDigits(<<"1">>))
  @@ (<<"u", "s">> :> BigOfDigits(<<"1", "0", "0", "0">>))
  @@ (<<"U+00B5", "s">> :> BigOfDigits(<<"1", "0", "0", "0">>))
  @@ (<<"U+03BC", "s">> :> BigOfDigits(<<"1", "0", "0", "0">>))
  @@ (<<"m", "s">> :> BigOfDigits(<<"1", "0", "0", "0", "0", "0", "0">>))
  @@ (<<"s">> :>
        BigOfDigits(<<"1", "0", "0", "0", "0", "0", "0", "0", "0", "0">>))
  @@ (<<"m">> :>
        BigOfDigits(<<"6", "0", "0", "0", "0", "0", "0", "0", "0", "0", "0">>))
  @@ (<<"h">> :>
        BigOfDigits(<<"3", "6", "0", "0", "0", "0", "0", "0", "0", "0", "0",
                      "0", "0">>))

RECURSIVE SkipDigits(_, _)
SkipDigits(s, i) ==
  IF i <= Len(s) /\ s[i] \in Digits THEN SkipDigits(s, i + 1) ELSE i

RECURSIVE SkipUnit(_, _)
SkipUnit(s, i) ==
  IF i <= Len(s) /\ s[i] # "." /\ s[i] \notin Digits
  THEN SkipUnit(s, i + 1) ELSE i

\* leadingInt on s[i..]: the value x read so far
RECURSIVE leadingInt(_, _, _)
leadingInt(s, i, x) ==
  IF i > Len(s) \/ s[i] \notin Digits THEN [err |-> FALSE, x |-> x]
  ELSE IF BigGt(x, Two63Div10) THEN [err |-> TRUE, x |-> <<>>]
  ELSE LET y == Norm(MulDigit(x, 10, DigitValue[s[i]]))
       IN  IF BigGt(y, Two63) THEN [err |-> TRUE, x |-> <<>>]
           ELSE leadingInt(s, i + 1, y)

\* scale of leadingFraction after the given number of digits: 1 multiplied
\* by 10 in float64 once per digit
RECURSIVE ScaleOf(_)
ScaleOf(digits) ==
  IF digits = 0 THEN FloatOne ELSE FloatMul(ScaleOf(digits - 1), FloatTen)

\* leadingFraction on s[i..]: the value x and the number of digits taken
\* (scale = ScaleOf(digits)); digits after an overflow are skipped
RECURSIVE leadingFraction(_, _, _, _, _)
leadingFraction(s, i, x, digits, overflow) ==
  IF i > Len(s) \/ s[i] \notin Digits THEN [x |-> x, digits |-> digits]
  ELSE IF overflow THEN leadingFraction(s, i + 1, x, digits, TRUE)
  ELSE IF BigGt(x, Two63Div10)
       THEN leadingFraction(s, i + 1, x, digits, TRUE)
  ELSE LET y == Norm(MulDigit(x, 10, DigitValue[s[i]]))
       IN  IF BigGt(y, Two63)
           THEN leadingFraction(s, i + 1, x, digits, TRUE)
           ELSE leadingFraction(s, i + 1, y, digits + 1, FALSE)

\* The loop over the groups from position i (1-based) with d accumulated
\* so far: whether all groups parse, and the sum.  A group is read by
\* ParseGroups, its value is computed by GroupValue and added by AddGroup.
RECURSIVE ParseGroups(_, _, _)

\* d += v, in uint64, and the overflow check on d; then the groups from
\* position e
AddGroup(s, e, d, v) ==
  IF BigGt(v, Two63) THEN [ok |-> FALSE, d |-> d]
  ELSE LET sum == BigAdd(d, v)
           d2  == IF BigGt(Two64, sum) THEN sum ELSE BigSub(sum, Two64)
       IN  IF BigGt(d2, Two63) THEN [ok |-> FALSE, d |-> d]
           ELSE ParseGroups(s, e, d2)

\* v *= unit with its overflow check, and the fraction's contribution
\* uint64(float64(f) * (float64(unit) / scale)); then AddGroup
GroupValue(s, e, d, v, f, digits, unit) ==
  IF BigGt(BigMul(v, unit), Two63) THEN [ok |-> FALSE, d |-> d]
  ELSE AddGroup(s, e, d,
         IF f # <<>>
         THEN BigAdd(BigMul(v, unit),
                     Uint64Of(FloatMul(Float64Of(f),
                                FloatDiv(Float64Of(unit), ScaleOf(digits)))))
         ELSE BigMul(v, unit))

ParseGroups(s, i, d) ==
  IF i > Len(s) THEN [ok |-> TRUE, d |-> d]
  ELSE IF ~(s[i] = "." \/ s[i] \in Digits) THEN [ok |-> FALSE, d |-> d]
  ELSE LET j    == SkipDigits(s, i)
           li   == leadingInt(s, i, <<>>)
           pre  == j # i
           dot  == j <= Len(s) /\ s[j] = "."
           k    == IF dot THEN SkipDigits(s, j + 1) ELSE j
           lf   == IF dot THEN leadingFraction(s, j + 1, <<>>, 0, FALSE)
                   ELSE [x |-> <<>>, digits |-> 0]
           post == dot /\ k # j + 1
           e    == SkipUnit(s, k)
           u    == SubSeq(s, k, e - 1)
       IN  IF li.err THEN [ok |-> FALSE, d |-> d]
           ELSE IF ~pre /\ ~post THEN [ok |-> FALSE, d |-> d]
           ELSE IF e = k THEN [ok |-> FALSE, d |-> d]
           ELSE IF u \notin DOMAIN unitMap THEN [ok |-> FALSE, d |-> d]
           ELSE GroupValue(s, e, d, li.x, lf.x, lf.digits, unitMap[u])

\* the check after the loop: d > 1<<63-1 is an error unless the sign is "-"
InRange(neg, r) == r.ok /\ (neg \/ ~BigGt(r.d, Two63Minus1))

\* TRUE iff time.ParseDuration(s) returns a nil error.
ParseDurationOk(s) ==
  LET neg == s # <<>> /\ s[1] = "-"
      t   == IF s # <<>> /\ s[1] \in {"-", "+"} THEN Tail(s) ELSE s
  IN  IF t = <<"0">> THEN TRUE
      ELSE IF t = <<>> THEN FALSE
      ELSE InRange(neg, ParseGroups(t, 1, <<>>))

\* ------------------------------------------------------------------------
\* parseNodeSelector (mustgather.go:381-391).  The selector is a sequence
\* of "," "=" and white space tokens and of name tokens; the result is a set of
\* <<key, value>> pairs in which a later pair replaces an earlier one with
\* the same key.
\* ------------------------------------------------------------------------
RECURSIVE IndexOf(_, _, _)
IndexOf(s, c, i) ==
  IF i > Len(s) THEN 0 ELSE IF s[i] = c THEN i ELSE IndexOf(s, c, i + 1)

RECURSIVE Split(_, _)
Split(s, c) ==
  LET i == IndexOf(s, c, 1) IN
  IF i = 0 THEN <<s>>
  ELSE <<SubSeq(s, 1, i - 1)>> \o Split(SubSeq(s, i + 1, Len(s)), c)

\* unicode.IsSpace: the characters strings.TrimSpace removes, each a token
\* of its own; those with no escape are named by their code point
WhiteSpace ==
  { " ", "\t", "\n", "\f", "\r", "U+000B", "U+0085", "U+00A0", "U+1680",
    "U+2000", "U+2001", "U+2002", "U+2003", "U+2004", "U+2005", "U+2006",
    "U+2007", "U+2008", "U+2009", "U+200A", "U+2028", "U+2029", "U+202F",
    "U+205F", "U+3000" }

RECURSIVE TrimSpace(_)
TrimSpace(s) ==
  IF s # <<>> /\ s[1] \in WhiteSpace THEN TrimSpace(Tail(s))
  ELSE IF s # <<>> /\ s[Len(s)] \in WhiteSpace
       THEN TrimSpace(SubSeq(s, 1, Len(s) - 1))
  ELSE s

RECURSIVE SelectorPairs(_, _)
SelectorPairs(pairs, acc) ==
  IF pairs = <<>> THEN acc
  ELSE LET pair == TrimSpace(Head(pairs))
           i    == IndexOf(pair, "=", 1)
           k    == TrimSpace(SubSeq(pair, 1, i - 1))
           v    == TrimSpace(SubSeq(pair, i + 1, Len(pair)))
       IN  IF i = 0 THEN SelectorPairs(Tail(pairs), acc)
           ELSE SelectorPairs(Tail(pairs),
                  {kv \in acc : kv[1] # k} \cup {<<k, v>>})

parseNodeSelector(selector) == SelectorPairs(Split(selector, ","), {})

\* ------------------------------------------------------------------------
\* The argument map
\* ------------------------------------------------------------------------
Has(args, k) == k \in DOMAIN args

\* args[k].(string) with the comma-ok form: "" when absent
\* (must_gather_plan.go:46-49)
StringOrEmpty(args, k) == IF Has(args, k) THEN args[k] ELSE ""

\* ------------------------------------------------------------------------
\* The rendered text: a sequence of segments, in the order written to the
\* strings.Builder.  yaml.Marshal(obj) is the segment Yaml(obj).
\* ------------------------------------------------------------------------
Text(t) == [seg |-> "text", text |-> t]
Yaml(o) == [seg |-> "yaml", obj |-> o]
Separator == Text(<<"---\n">>)
\* the three backquotes that open and close a fenced code block
CodeFence == "<backquote><backquote><backquote>"

\* api.NewToolCallResult(content, err) returned with a nil error
\* (mustgather.go:161, 172, 256, 275, 369)
NoError == <<>>
NewToolCallResult(content, toolErr, calls) ==
  [panic |-> FALSE, nilResult |-> FALSE, content |-> content,
   toolError |-> toolErr, err |-> NoError, listCalls |-> calls]

\* return nil, err (must_gather_plan.go:52)
ReturnError(e) ==
  [panic |-> FALSE, nilResult |-> TRUE, content |-> <<>>,
   toolError |-> NoError, err |-> e, listCalls |-> 0]

\* a run-time panic: index out of range (mustgather.go:201)
Panic(calls) ==
  [panic |-> TRUE, nilResult |-> TRUE, content |-> <<>>,
   toolError |-> NoError, err |-> NoError, listCalls |-> calls]

\* ------------------------------------------------------------------------
\* The duration strings a caller gives in this model, and the outcome of
\* time.ParseDuration on each of them
\* ------------------------------------------------------------------------
TimeoutValues ==
  { <<"1", "0", "m">>, <<"1", ".", "5", "U+00B5", "s">>, <<"1", "0">> }
SinceValues ==
  { <<"5", "s">>, <<"2", "5", "6", "2", "0", "4", "8", "h">>, <<>> }

parseDurationOk ==
  [s \in TimeoutValues \cup SinceValues |-> ParseDurationOk(s)]

\* ------------------------------------------------------------------------
\* plan_mustgather: parameter resolution (mustgather.go:112-174)
\* ------------------------------------------------------------------------
nodeName(args) == IF Has(args, "node_name") THEN args["node_name"] ELSE ""

nodeSelector(args) ==
  IF Has(args, "node_selector") THEN parseNodeSelector(args["node_selector"])
  ELSE {}

hostNetwork(args) == Has(args, "host_network") /\ args["host_network"]

sourceDir(args) ==
  IF Has(args, "source_dir") THEN Clean(args["source_dir"])
  ELSE defaultGatherSourceDir

\* generateRandomString(6): the first six characters of the lower-cased
\* rand.Text(), which is 26 characters long; randText is that prefix.
generateRandomString(randText) == randText

namespace(args, randText) ==
  IF Has(args, "namespace") THEN args["namespace"]
  ELSE <<"openshift-must-gather-", generateRandomString(randText)>>

keepNamespace(args) == Has(args, "keep_namespace") /\ args["keep_namespace"]

\* images = args["images"].([]string), an unchecked type assertion: a value
\* of another dynamic type, such as the []interface{} a decoded JSON array
\* is, panics (mustgather.go:153)
imagesAssertionPanics(args) ==
  Has(args, "images") /\ args["images"].dyn # "[]string"

images(args) == IF Has(args, "images") THEN args["images"].elems ELSE <<>>

timeoutInvalid(args) ==
  Has(args, "timeout") /\ ~parseDurationOk[args["timeout"]]

sinceInvalid(args) ==
  Has(args, "since") /\ ~parseDurationOk[args["since"]]

since(args) == IF Has(args, "since") THEN args["since"] ELSE <<>>

gatherCmdBug(args) ==
  IF Has(args, "gather_command") THEN args["gather_command"]
  ELSE defaultGatherCmd
gatherCmd(args) ==
  LET cmd == IF Has(args, "gather_command") THEN args["gather_command"]
             ELSE defaultGatherCmd
  IN  IF Has(args, "timeout")
      THEN <<"/usr/bin/timeout ">> \o args["timeout"] \o <<" ">> \o cmd
      ELSE cmd

\* ------------------------------------------------------------------------
\* plan_mustgather: the pod (mustgather.go:176-252)
\* ------------------------------------------------------------------------
envVarsBug(s) == <<[name |-> "MUST_GATHER_SINCE", value |-> s]>>
envVars(s) ==
  IF s # <<>> THEN <<[name |-> "MUST_GATHER_SINCE", value |-> s]>> ELSE <<>>

gatherContainerTemplate(args) ==
  [name |-> "gather",
   image |-> defaultMustGatherImage,
   imagePullPolicy |-> "IfNotPresent",
   command |-> <<gatherCmd(args)>>,
   env |-> envVars(since(args)),
   volumeMounts |-> <<[name |-> "must-gather-collection",
                       mountPath |-> sourceDir(args)]>>]

\* make([]corev1.Container, 1): the slice the loop at :200-203 writes to
gatherContainersLen == 1

\* gatherContainers[i] = ... with i at or beyond the slice's length
gatherContainersPanics(imgs) ==
  \E i \in 0 .. Len(imgs) - 1 : i >= gatherContainersLen

gatherContainers(template, imgs) ==
  [i \in 1 .. gatherContainersLen |->
     IF i <= Len(imgs) THEN [template EXCEPT !.image = imgs[i]] ELSE template]

waitContainer ==
  [name |-> "wait",
   image |-> "registry.redhat.io/ubi9/ubi-minimal",
   imagePullPolicy |-> "IfNotPresent",
   command |-> << <<"/bin/bash">>, <<"-c">>, <<"sleep infinity">> >>,
   env |-> <<>>,
   volumeMounts |-> <<[name |-> "must-gather-collection",
                       mountPath |-> <<"/", "must-gather">>]>>]

serviceAccountName == "must-gather-collector"

pod(args, randText) ==
  [apiVersion |-> "", kind |-> "",
   name |-> <<>>,
   generateName |-> "must-gather-",
   namespace |-> namespace(args, randText),
   serviceAccountName |-> serviceAccountName,
   nodeName |-> nodeName(args),
   priorityClassName |-> "system-cluster-critical",
   restartPolicy |-> "Never",
   volumes |-> <<"must-gather-collection">>,
   containers |-> Append(gatherContainers(gatherContainerTemplate(args),
                                          images(args)),
                         waitContainer),
   hostNetwork |-> hostNetwork(args),
   nodeSelector |-> nodeSelector(args),
   tolerations |-> <<"Exists">>]

\* ------------------------------------------------------------------------
\* plan_mustgather: the namespace check (mustgather.go:254-276).
\* cluster.listErr: NamespacesList returns an error.  cluster.items: the
\* listed objects, each with the name u.GetName() gives and whether
\* ToUnstructured converts it.
\* ------------------------------------------------------------------------
EachListItemBug(items, ns, exists) ==
  [err |-> FALSE,
   namespaceExists |->
     exists \/ \E i \in 1 .. Len(items) :
                 items[i].convertible /\ items[i].name = ns]
RECURSIVE EachListItem(_, _, _)
EachListItem(items, ns, exists) ==
  IF items = <<>> THEN [err |-> FALSE, namespaceExists |-> exists]
  ELSE IF exists THEN EachListItem(Tail(items), ns, exists)
  ELSE IF ~Head(items).convertible
       THEN [err |-> TRUE, namespaceExists |-> exists]
  ELSE EachListItem(Tail(items), ns, Head(items).name = ns)

namespaceExistsBug(cluster, ns) == FALSE
namespaceExists(cluster, ns) ==
  EachListItem(cluster.items, ns, FALSE).namespaceExists

\* ------------------------------------------------------------------------
\* plan_mustgather: the descriptors (mustgather.go:278-323)
\* ------------------------------------------------------------------------
namespaceObj(ns) ==
  [apiVersion |-> "v1", kind |-> "Namespace", name |-> ns]

serviceAccount(ns) ==
  [apiVersion |-> "v1", kind |-> "ServiceAccount",
   name |-> <<serviceAccountName>>, namespace |-> ns]

clusterRoleBindingName(ns) == <<"must-gather-collector-">> \o ns

clusterRoleBinding(ns) ==
  [apiVersion |-> "rbac.authorization.k8s.io/v1",
   kind |-> "ClusterRoleBinding",
   name |-> clusterRoleBindingName(ns),
   roleRef |-> [apiGroup |-> "rbac.authorization.k8s.io",
                kind |-> "ClusterRole", name |-> "cluster-admin"],
   subjects |-> <<[kind |-> "ServiceAccount", name |-> serviceAccountName,
                   namespace |-> ns]>>]

\* ------------------------------------------------------------------------
\* plan_mustgather: rendering (mustgather.go:325-369)
\* ------------------------------------------------------------------------
\* the line written at :330; dir is the directory it names
copyInstruction(ns, dir) ==
  <<"# kubectl cp -n ">> \o ns \o <<" <pod-name>:">> \o dir
    \o <<" ./must-gather-output -c wait\n">>

header(ns, keep) ==
  << Text(<<"# Save the following content to a file (e.g., must-gather-plan.yaml) and apply it with 'kubectl apply -f must-gather-plan.yaml'\n">>),
     Text(<<"# Monitor the pod's logs to see when the must-gather process is complete:\n">>),
     Text(<<"# kubectl logs -f -n ">> \o ns \o <<" <pod-name> -c gather\n">>),
     Text(<<"# Once the logs indicate completion, copy the results with:\n">>),
     Text(copyInstruction(ns, <<"/", "must-gather">>)) >>
  \o (IF ~keep
      THEN << Text(<<"# Finally, clean up the resources with:\n">>),
              Text(<<"# kubectl delete ns ">> \o ns \o <<"\n">>),
              Text(<<"# kubectl delete clusterrolebinding ">>
                   \o clusterRoleBindingName(ns) \o <<"\n">>) >>
      ELSE <<>>)
  \o << Text(<<"\n">>), Text(<<CodeFence, "yaml">>) >>

render(args, cluster, randText) ==
  LET ns == namespace(args, randText) IN
  header(ns, keepNamespace(args))
  \o (IF ~namespaceExists(cluster, ns)
      THEN <<Separator, Yaml(namespaceObj(ns))>> ELSE <<>>)
  \o <<Separator, Yaml(serviceAccount(ns))>>
  \o <<Separator, Yaml(clusterRoleBinding(ns))>>
  \o <<Yaml(pod(args, randText))>>
  \o <<Text(<<CodeFence>>)>>

\* ------------------------------------------------------------------------
\* plan_mustgather: the handler (mustgather.go:109-370), in the two parts
\* that the blocking call params.NamespacesList (mustgather.go:254)
\* separates.  A value is what the call returns, or a panic, with the
\* number of NamespacesList calls.
\* ------------------------------------------------------------------------
\* mustgather.go:117-252: the handler returns or panics before it lists
returnsBeforeListing(args) ==
  \/ imagesAssertionPanics(args)
  \/ timeoutInvalid(args)
  \/ sinceInvalid(args)
  \/ gatherContainersPanics(images(args))

beforeListing(args) ==
  IF imagesAssertionPanics(args)
  THEN Panic(0)
  ELSE IF timeoutInvalid(args)
  THEN NewToolCallResult(<<>>, <<"timeout duration is not valid">>, 0)
  ELSE IF sinceInvalid(args)
  THEN NewToolCallResult(<<>>, <<"since duration is not valid">>, 0)
  ELSE Panic(0)

\* mustgather.go:254-369: what the handler returns once NamespacesList has
\* answered with the listing outcome cluster
afterListing(args, cluster, randText) ==
  IF cluster.listErr
  THEN NewToolCallResult(<<>>,
         <<"failed to list namespaces: ", "list error">>, 1)
  ELSE IF EachListItem(cluster.items, namespace(args, randText), FALSE).err
  THEN NewToolCallResult(<<>>,
         <<"failed to check namespaces list: ", "conversion error">>, 1)
  ELSE NewToolCallResult(render(args, cluster, randText), NoError, 1)

\* the whole call, for the listing outcome cluster
mustGatherPlan(args, cluster, randText) ==
  IF returnsBeforeListing(args) THEN beforeListing(args)
  ELSE afterListing(args, cluster, randText)

\* ------------------------------------------------------------------------
\* must_gather_plan: the handler (must_gather_plan.go:44-188).
\* randSuffix is rand.String(5).
\* ------------------------------------------------------------------------
mustGatherPlanMinimal(args, randSuffix) ==
  LET image == StringOrEmpty(args, "image")
      destDir == StringOrEmpty(args, "dest_dir")
      node == StringOrEmpty(args, "node_name")
      imageStream == StringOrEmpty(args, "image_stream")
      image2 == IF image = "" THEN defaultMustGatherImage ELSE image
      destDir2 == IF destDir = "" THEN "./must-gather-results" ELSE destDir
      namespaceName == <<"openshift-must-gather-", randSuffix>>
      podName == <<"must-gather-", randSuffix>>
      saName == "must-gather-admin"
      crbName == namespaceName \o <<"-", saName>>
      nsObj == [apiVersion |-> "v1", kind |-> "Namespace",
                name |-> namespaceName]
      saObj == [apiVersion |-> "v1", kind |-> "ServiceAccount",
                name |-> <<saName>>, namespace |-> namespaceName]
      crbObj == [apiVersion |-> "rbac.authorization.k8s.io/v1",
                 kind |-> "ClusterRoleBinding",
                 name |-> crbName,
                 roleRef |-> [apiGroup |-> "rbac.authorization.k8s.io",
                              kind |-> "ClusterRole",
                              name |-> "cluster-admin"],
                 subjects |-> <<[kind |-> "ServiceAccount", name |-> saName,
                                 namespace |-> namespaceName]>>]
      podObj == [apiVersion |-> "v1", kind |-> "Pod",
                 name |-> podName,
                 namespace |-> namespaceName,
                 containers |-> <<
                   [name |-> "must-gather",
                    image |-> image2,
                    command |-> << <<"/bin/sh">>, <<"-c">>,
                                   <<"/usr/bin/gather && sleep infinity">> >>,
                    volumeMounts |-> <<[name |-> "must-gather-output",
                                        mountPath |-> <<"/", "must-gather">>]>>]
                   >>,
                 volumes |-> <<"must-gather-output">>,
                 restartPolicy |-> "Never",
                 nodeName |-> node,
                 serviceAccountName |-> saName]
  IN
  IF imageStream # ""
  THEN ReturnError(<<"the --image-stream parameter is not yet supported. Please use the --image parameter">>)
  ELSE NewToolCallResult(
         << Text(<<"# Save the following content to a file (e.g., must-gather-plan.yaml) and apply it with 'kubectl apply -f must-gather-plan.yaml'\n">>),
            Text(<<"# Monitor the pod's logs to see when the must-gather process is complete:\n">>),
            Text(<<"# kubectl logs -f -n ">> \o namespaceName \o <<" ">>
                 \o podName \o <<"\n">>),
            Text(<<"# Once the logs indicate completion, copy the results with:\n">>),
            Text(<<"# kubectl cp -n ">> \o namespaceName \o <<" ">> \o podName
                 \o <<":/must-gather ", destDir2, "\n">>),
            Text(<<"# Finally, clean up the resources with:\n">>),
            Text(<<"# kubectl delete ns ">> \o namespaceName \o <<"\n">>),
            Text(<<"# kubectl delete clusterrolebinding ">> \o crbName
                 \o <<"\n">>),
            Separator, Yaml(nsObj),
            Separator, Yaml(saObj),
            Separator, Yaml(crbObj),
            Separator, Yaml(podObj) >>,
         NoError, 0)

\* ------------------------------------------------------------------------
\* The inputs: the values a caller may give to each parameter, the
\* namespaces the cluster may list and the random draws.
\* ------------------------------------------------------------------------
RECURSIVE SeqsUpTo(_, _)
SeqsUpTo(S, n) ==
  IF n = 0 THEN {<<>>}
  ELSE LET shorter == SeqsUpTo(S, n - 1)
       IN  shorter \cup {Append(q, x) : q \in shorter, x \in S}

\* the argument maps that give no value or one value of S to key k
Opt(k, S) == {<<>>} \cup {k :> v : v \in S}

SourceDirValues ==
  { <<"/", "must-gather", "/">>,
    <<"/", "must-gather">>,
    <<"/", "/", "data", "/", ".", "/", "logs", "/", ".", ".", "/", "out", "/">> }
NamespaceValues == { <<"ns1">> }
RandTexts == { "k3x9qa", "b7w2mz" }
GatherCommandValues == { <<"/usr/bin/gather_audit_logs">> }
ImageValues == { "quay.io/a/must-gather:v1", "quay.io/b/must-gather:v2" }
\* the values of images: a Go []string, or the []interface{} that
\* encoding/json makes of a JSON array (empty or of one image)
ImagesValues ==
  { [dyn |-> "[]string", elems |-> q] : q \in SeqsUpTo(ImageValues, MaxImages) }
  \cup { [dyn |-> "[]interface{}", elems |-> q] :
           q \in {<<>>} \cup {<<x>> : x \in ImageValues} }
ImageStreamValues == { "foo" }

\* the parameters the handler copies into the pod or ignores
PlacementValues ==
  { <<>>,
    "node_name" :> "node1"
      @@ "node_selector" :>
           <<"a", "=", "1", ",", "\t", "b", " ", "=", " ", "2", "\n">>
      @@ "host_network" :> TRUE
      @@ "all_component_images" :> TRUE }

ListItems ==
  { [convertible |-> TRUE, name |-> <<"ns1">>],
    [convertible |-> FALSE, name |-> <<>>] }
Clusters ==
  { [listErr |-> TRUE, items |-> <<>>] }
  \cup { [listErr |-> FALSE, items |-> l] : l \in SeqsUpTo(ListItems, MaxList) }

PlanArgs ==
  { a1 @@ a2 @@ a3 @@ a4 @@ a5 @@ a6 @@ a7 @@ a8 @@ a9 :
      a1 \in Opt("source_dir", SourceDirValues),
      a2 \in Opt("namespace", NamespaceValues),
      a3 \in Opt("gather_command", GatherCommandValues),
      a4 \in Opt("images", ImagesValues),
      a5 \in Opt("timeout", TimeoutValues),
      a6 \in Opt("since", SinceValues),
      a7 \in Opt("keep_namespace", {TRUE}),
      a8 \in Opt("image_stream", ImageStreamValues),
      a9 \in PlacementValues }

MinimalArgs ==
  { a1 @@ a2 @@ a3 @@ a4 :
      a1 \in Opt("image", ImageValues),
      a2 \in Opt("dest_dir", {"./out"}),
      a3 \in Opt("node_name", {"node1"}),
      a4 \in Opt("image_stream", ImageStreamValues \cup {""}) }

\* ------------------------------------------------------------------------
\* The state machine: a caller invokes one of the two tools, the handler
\* runs, the caller takes the result.  plan_mustgather waits for the
\* answer of NamespacesList on the way (pc = "listing"); cluster is that
\* answer, NoCluster as long as there is none.
\* ------------------------------------------------------------------------
VARIABLES pc, tool, args, cluster, randText, result

vars == <<pc, tool, args, cluster, randText, result>>

NoResult ==
  [panic |-> FALSE, nilResult |-> TRUE, content |-> <<>>,
   toolError |-> NoError, err |-> NoError, listCalls |-> 0]
NoCluster == [listErr |-> FALSE, items |-> <<>>]

Init ==
  /\ pc = "idle"
  /\ tool = ""
  /\ args = <<>>
  /\ cluster = NoCluster
  /\ randText = ""
  /\ result = NoResult

\* a call of plan_mustgather arrives
CallPlanMustGather ==
  /\ pc = "idle"
  /\ pc' = "called"
  /\ tool' = "plan_mustgather"
  /\ args' \in PlanArgs
  /\ randText' \in RandTexts
  /\ UNCHANGED <<cluster, result>>

CallMustGatherPlan ==
  /\ pc = "idle"
  /\ pc' = "called"
  /\ tool' = "must_gather_plan"
  /\ args' \in MinimalArgs
  /\ randText' \in RandTexts
  /\ UNCHANGED <<cluster, result>>

\* mustgather.go:109-254: the handler runs up to the NamespacesList call; it
\* returns or panics there, or issues the call and waits for its answer
HandlePlanMustGather ==
  /\ pc = "called"
  /\ tool = "plan_mustgather"
  /\ IF returnsBeforeListing(args)
     THEN /\ result' = beforeListing(args)
          /\ pc' = "returned"
     ELSE /\ pc' = "listing"
          /\ UNCHANGED result
  /\ UNCHANGED <<tool, args, cluster, randText>>

\* mustgather.go:254-369: NamespacesList answers, with whatever the cluster
\* holds at that moment, and the handler runs to its end
NamespacesListReturns ==
  /\ pc = "listing"
  /\ cluster' \in Clusters
  /\ result' = afterListing(args, cluster', randText)
  /\ pc' = "returned"
  /\ UNCHANGED <<tool, args, randText>>

HandleMustGatherPlan ==
  /\ pc = "called"
  /\ tool = "must_gather_plan"
  /\ result' = mustGatherPlanMinimal(args, randText)
  /\ pc' = "returned"
  /\ UNCHANGED <<tool, args, cluster, randText>>

Return ==
  /\ pc = "returned"
  /\ pc' = "idle"
  /\ tool' = ""
  /\ args' = <<>>
  /\ cluster' = NoCluster
  /\ randText' = ""
  /\ result' = NoResult

Next ==
  \/ CallPlanMustGather
  \/ CallMustGatherPlan
  \/ HandlePlanMustGather
  \/ NamespacesListReturns
  \/ HandleMustGatherPlan
  \/ Return

Spec == Init /\ [][Next]_vars

\* ------------------------------------------------------------------------
\* Vocabulary of the properties
\* ------------------------------------------------------------------------
Returned(t) == pc = "returned" /\ tool = t

\* the call returned a result that carries a plan and no error
Rendered(r) ==
  /\ ~r.panic
  /\ ~r.nilResult
  /\ r.toolError = NoError
  /\ r.err = NoError
  /\ r.content # <<>>

\* the call returned a tool-level result whose only content is the message
\* msg, with a nil low-level error
ToolErrorOnly(r, msg) ==
  /\ ~r.panic
  /\ ~r.nilResult
  /\ r.toolError = msg
  /\ r.err = NoError
  /\ r.content = <<>>

IsYaml(sg) == sg.seg = "yaml"
IsSeparator(sg) == sg.seg = "text" /\ sg.text = <<"---\n">>
IsPodDoc(sg) == IsYaml(sg) /\ "containers" \in DOMAIN sg.obj
IsKindDoc(sg, k) == IsYaml(sg) /\ sg.obj.kind = k

\* the documents of a rendered text, in order
Docs(content) == SelectSeq(content, IsYaml)
RenderedPod(content) ==
  (CHOOSE i \in 1 .. Len(content) : IsPodDoc(content[i]))
DocOfKind(content, k) ==
  content[CHOOSE i \in 1 .. Len(content) : IsKindDoc(content[i], k)].obj
HasDocOfKind(content, k) ==
  \E i \in 1 .. Len(content) : IsKindDoc(content[i], k)
PodOf(content) == content[RenderedPod(content)].obj

IsGather(c) == c.name = "gather"
GatherOf(content) == SelectSeq(PodOf(content).containers, IsGather)

\* the namespace name the invocation resolves to
ResolvedNamespace ==
  IF Has(args, "namespace") THEN args["namespace"]
  ELSE <<"openshift-must-gather-", randText>>

\* the listing collaborator returned a namespace with the resolved name
Listed == \E i \in 1 .. Len(cluster.items) :
            cluster.items[i].convertible
            /\ cluster.items[i].name = ResolvedNamespace

\* the listing call fails, or the iteration meets an object it cannot
\* convert before it has found the namespace
ListingFails ==
  \/ cluster.listErr
  \/ \E i \in 1 .. Len(cluster.items) :
        /\ ~cluster.items[i].convertible
        /\ \A j \in 1 .. i - 1 : cluster.items[j].name # ResolvedNamespace

\* timeout and since, where present, parse as durations
ValidDurations ==
  /\ Has(args, "timeout") => parseDurationOk[args["timeout"]]
  /\ Has(args, "since") => parseDurationOk[args["since"]]

SuppliedImages == IF Has(args, "images") THEN args["images"].elems ELSE <<>>

\* images is absent or a Go []string
ImagesTyped == Has(args, "images") => args["images"].dyn = "[]string"

WaitCommand == << <<"/bin/bash">>, <<"-c">>, <<"sleep infinity">> >>

\* ------------------------------------------------------------------------
\* C1: plan_mustgather with valid parameters and N >= 1 images returns a
\* plan whose pod has N gather containers, the i-th with the i-th image,
\* followed by exactly one wait container.
\* ------------------------------------------------------------------------
C1_GatherPerImage ==
  (Returned("plan_mustgather") /\ ValidDurations /\ ~ListingFails
     /\ Len(SuppliedImages) >= 1)
  => /\ Rendered(result)
     /\ LET cs == PodOf(result.content).containers
            n  == Len(SuppliedImages)
        IN  /\ Len(cs) = n + 1
            /\ \A i \in 1 .. n :
                 cs[i].name = "gather" /\ cs[i].image = SuppliedImages[i]
            /\ cs[n + 1].name = "wait"

\* ------------------------------------------------------------------------
\* C2: plan_mustgather with a non-empty image_stream yields an error and
\* does nothing else: no namespace listing, no YAML.
\* ------------------------------------------------------------------------
C2_ImageStreamRejected ==
  (Returned("plan_mustgather") /\ Has(args, "image_stream")
     /\ args["image_stream"] # "")
  => /\ ~result.panic
     /\ result.err # NoError \/ result.toolError # NoError
     /\ result.content = <<>>
     /\ result.listCalls = 0

\* ------------------------------------------------------------------------
\* C3: in every rendered plan the Namespace document is present iff the
\* listing returned no namespace with the resolved name; present or not,
\* the ServiceAccount, the ClusterRoleBinding subject and the Pod carry the
\* resolved namespace and the binding is named
\* must-gather-collector-<namespace>; another listing outcome changes
\* nothing else in the plan.
\* ------------------------------------------------------------------------
NotNamespaceDoc(sg) == ~IsKindDoc(sg, "Namespace")
OtherDocs(content) == SelectSeq(Docs(content), NotNamespaceDoc)
IsComment(sg) == sg.seg = "text" /\ ~IsSeparator(sg)
Comments(content) == SelectSeq(content, IsComment)

C3_NamespaceGate ==
  (Returned("plan_mustgather") /\ Rendered(result))
  => LET c  == result.content
         ns == ResolvedNamespace
     IN  /\ HasDocOfKind(c, "Namespace") <=> ~Listed
         /\ HasDocOfKind(c, "Namespace")
              => DocOfKind(c, "Namespace").name = ns
         /\ DocOfKind(c, "ServiceAccount").namespace = ns
         /\ DocOfKind(c, "ClusterRoleBinding").subjects[1].namespace = ns
         /\ DocOfKind(c, "ClusterRoleBinding").name
              = <<"must-gather-collector-">> \o ns
         /\ PodOf(c).namespace = ns
         /\ \A other \in Clusters :
              LET r == mustGatherPlan(args, other, randText)
              IN  Rendered(r)
                    => /\ OtherDocs(r.content) = OtherDocs(c)
                       /\ Comments(r.content) = Comments(c)

\* a plan rendered for a namespace the cluster already has: no Namespace
\* document, the other documents in that namespace
C3_Witness ==
  /\ Returned("plan_mustgather")
  /\ Rendered(result)
  /\ Has(args, "namespace")
  /\ Listed
  /\ ~HasDocOfKind(result.content, "Namespace")
  /\ PodOf(result.content).namespace = args["namespace"]

\* ------------------------------------------------------------------------
\* C4: the rendered documents come in the order Namespace (when emitted),
\* ServiceAccount, ClusterRoleBinding, Pod inside one fenced block, and
\* every document, the Pod included, follows a --- marker line.
\* ------------------------------------------------------------------------
C4_EveryDocSeparated ==
  (Returned("plan_mustgather") /\ Rendered(result))
  => LET c == result.content
         d == Docs(c)
         n == Len(d)
     IN  /\ \A i \in 1 .. Len(c) :
              IsYaml(c[i]) => i > 1 /\ IsSeparator(c[i - 1])
         /\ n \in {3, 4}
         /\ n = 4 => d[1].obj.kind = "Namespace"
         /\ d[n - 2].obj.kind = "ServiceAccount"
         /\ d[n - 1].obj.kind = "ClusterRoleBinding"
         /\ IsPodDoc(d[n])

\* ------------------------------------------------------------------------
\* C5: an unparsable timeout, or an unparsable since, yields a tool-level
\* result whose only content is the message naming that parameter as
\* invalid, with a nil low-level error and no YAML or instruction text,
\* whatever the other parameters are.
\* ------------------------------------------------------------------------
C5_InvalidDuration ==
  Returned("plan_mustgather")
  => /\ (Has(args, "timeout") /\ ~parseDurationOk[args["timeout"]])
          => ToolErrorOnly(result, <<"timeout duration is not valid">>)
     /\ (Has(args, "since") /\ ~parseDurationOk[args["since"]]
           /\ (Has(args, "timeout") => parseDurationOk[args["timeout"]]))
          => ToolErrorOnly(result, <<"since duration is not valid">>)

\* ------------------------------------------------------------------------
\* C6: with source_dir supplied or left to its default, the gather
\* containers mount the path-normalized source directory, and the copy
\* instruction comment names that same directory.
\* ------------------------------------------------------------------------
NormalizedSourceDir ==
  Clean(IF Has(args, "source_dir") THEN args["source_dir"]
        ELSE defaultGatherSourceDir)

C6_SourceDirNormalized ==
  (Returned("plan_mustgather") /\ Rendered(result))
  => LET c == result.content
         g == GatherOf(c)
     IN  /\ \A i \in 1 .. Len(g) :
              g[i].volumeMounts[1].mountPath = NormalizedSourceDir
         /\ \E i \in 1 .. Len(c) :
              /\ c[i].seg = "text"
              /\ c[i].text
                   = copyInstruction(ResolvedNamespace, NormalizedSourceDir)

\* ------------------------------------------------------------------------
\* C7: with valid parameters and images absent or empty, the pod has
\* exactly one gather container, with the default must-gather image,
\* followed by exactly one wait container.
\* ------------------------------------------------------------------------
C7_DefaultImage ==
  (Returned("plan_mustgather") /\ ValidDurations /\ ~ListingFails
     /\ Len(SuppliedImages) = 0)
  => /\ Rendered(result)
     /\ LET cs == PodOf(result.content).containers
        IN  /\ Len(cs) = 2
            /\ cs[1].name = "gather"
            /\ cs[1].image
                 = "registry.redhat.io/openshift4/ose-must-gather:latest"
            /\ cs[2].name = "wait"

\* ------------------------------------------------------------------------
\* C8: when since is present and parses, every gather container carries
\* exactly one variable MUST_GATHER_SINCE, with the value supplied; when
\* since is absent no gather container carries it; the wait container
\* never carries it.
\* ------------------------------------------------------------------------
SinceVars(c) ==
  { i \in 1 .. Len(c.env) : c.env[i].name = "MUST_GATHER_SINCE" }

C8_SinceEnv ==
  (Returned("plan_mustgather") /\ Rendered(result))
  => LET cs == PodOf(result.content).containers
     IN  \A i \in 1 .. Len(cs) :
           /\ (cs[i].name = "gather" /\ Has(args, "since")
                 /\ parseDurationOk[args["since"]])
                => /\ Cardinality(SinceVars(cs[i])) = 1
                   /\ \A j \in SinceVars(cs[i]) :
                        cs[i].env[j].value = args["since"]
           /\ (cs[i].name = "gather" /\ ~Has(args, "since"))
                => SinceVars(cs[i]) = {}
           /\ cs[i].name = "wait" => SinceVars(cs[i]) = {}
           /\ cs[i].name \in {"gather", "wait"}

\* a plan whose gather container carries the variable
C8_Witness ==
  /\ Returned("plan_mustgather")
  /\ Rendered(result)
  /\ Has(args, "since")
  /\ Len(SuppliedImages) = 1
  /\ GatherOf(result.content)[1].env
       = <<[name |-> "MUST_GATHER_SINCE", value |-> <<"5", "s">>]>>

\* ------------------------------------------------------------------------
\* C9: when timeout is present and parses, the command of every gather
\* container is the resolved gather command prefixed by the timeout
\* wrapper with that duration; the wait container's command is unchanged.
\* ------------------------------------------------------------------------
ResolvedCommand ==
  IF Has(args, "gather_command") THEN args["gather_command"]
  ELSE <<"/usr/bin/gather">>

C9_TimeoutWrapper ==
  (Returned("plan_mustgather") /\ Rendered(result) /\ Has(args, "timeout")
     /\ parseDurationOk[args["timeout"]])
  => LET cs == PodOf(result.content).containers
         g  == GatherOf(result.content)
     IN  /\ Len(g) >= 1
         /\ \A i \in 1 .. Len(g) :
              g[i].command
                = << <<"/usr/bin/timeout ">> \o args["timeout"] \o <<" ">>
                       \o ResolvedCommand >>
         /\ cs[Len(cs)].name = "wait"
         /\ cs[Len(cs)].command = WaitCommand

\* a plan with a timeout and a custom gather command
C9_Witness ==
  /\ Returned("plan_mustgather")
  /\ Rendered(result)
  /\ Has(args, "timeout")
  /\ Has(args, "gather_command")
  /\ GatherOf(result.content)[1].command
       = << <<"/usr/bin/timeout ", "1", "0", "m", " ",
              "/usr/bin/gather_audit_logs">> >>

\* ------------------------------------------------------------------------
\* C10: timeout defaults to 10m: an invocation without timeout returns
\* what the same invocation with timeout "10m" returns.
\* ------------------------------------------------------------------------
C10_TimeoutDefault ==
  (Returned("plan_mustgather") /\ ~Has(args, "timeout"))
  => result = mustGatherPlan(args @@ ("timeout" :> <<"1", "0", "m">>),
                             cluster, randText)

\* ------------------------------------------------------------------------
\* C11: when the handler reaches the namespace listing and the listing
\* call fails, or the iteration over the returned list fails, the call
\* returns a tool-level result carrying only a message that describes the
\* failure, with a nil low-level error and no panic; no YAML or
\* instruction text is returned, and no result carries both an error and
\* plan output.
\* ------------------------------------------------------------------------
\* the parameters let the handler reach the listing
ReachesListing ==
  ValidDurations /\ ImagesTyped /\ Len(SuppliedImages) <= 1

C11_ListingFailure ==
  Returned("plan_mustgather")
  => /\ (ReachesListing /\ cluster.listErr)
          => /\ ToolErrorOnly(result,
                   <<"failed to list namespaces: ", "list error">>)
             /\ result.listCalls = 1
     /\ (ReachesListing /\ ~cluster.listErr /\ ListingFails)
          => /\ ToolErrorOnly(result,
                   <<"failed to check namespaces list: ",
                     "conversion error">>)
             /\ result.listCalls = 1
     /\ ~(result.content # <<>>
            /\ (result.toolError # NoError \/ result.err # NoError))

\* the iteration fails on an object listed before the namespace is found
C11_Witness ==
  /\ Returned("plan_mustgather")
  /\ ~cluster.listErr
  /\ Len(cluster.items) = 2
  /\ ~cluster.items[1].convertible
  /\ Has(args, "namespace")
  /\ cluster.items[2].name = args["namespace"]
  /\ result.listCalls = 1
  /\ ToolErrorOnly(result,
       <<"failed to check namespaces list: ", "conversion error">>)

====
